---- MODULE Spec2Model ----
(***************************************************************************)
(* A model of the OpenAPI-to-MCP server of src/index.js: the startup       *)
(* (createServer: concurrent spec fetches, then the compilation loop that  *)
(* names and registers one tool per operation), the tool handler (one      *)
(* invocation: path filling, URL construction, timer, HTTP call, response  *)
(* normalisation) and the pure helpers they use.                           *)
(*                                                                         *)
(* Text is modelled as a sequence of one-character strings, so that the    *)
(* helpers compute on characters as the JavaScript does.  An absent or     *)
(* empty JavaScript string is the empty sequence (the code tests both with *)
(* the same truthiness checks).                                            *)
(***************************************************************************)
EXTENDS Integers, Sequences, FiniteSets, TLC

VARIABLES
    \* ---- createServer (startup) ----
    remote,      \* per source URL: what the remote side will answer
    fetchPc,     \* per source URL: position of its async fetch callback
    specs,       \* the `specs` array (src/index.js:162), in push order
    phase,       \* position of createServer
    cursor,      \* index in `specs` of the outer compilation loop
    tools,       \* the tools registered on the server, in registration order
    usedNames,   \* the `usedNames` set (src/index.js:178)
    \* ---- tool handler (one entry per invocation) ----
    pc,          \* position of the invocation's handler
    input,       \* the arguments the handler was called with
    result,      \* what the handler returned (or that it threw)
    sent,        \* the URLs of the HTTP requests the invocation issued
    timer,       \* the invocation's setTimeout: state and delay
    aborted,     \* controller.signal.aborted
    res,         \* the Response object the fetch resolved with
    \* ---- joinUrl applied on its own ----
    joinIn,      \* the (base, path) pair joinUrl is applied to
    joinOut      \* what joinUrl returned for it

startupVars == <<remote, fetchPc, specs, phase, cursor, tools, usedNames>>
handlerVars == <<pc, input, result, sent, timer, aborted, res>>
joinVars    == <<joinIn, joinOut>>
vars        == <<remote, fetchPc, specs, phase, cursor, tools, usedNames,
                 pc, input, result, sent, timer, aborted, res, joinIn, joinOut>>

-----------------------------------------------------------------------------
(* Bounds of the model *)

\* number of source URLs handed to createServer
NumUrls == 2
\* longest base and longest path joinUrl is applied to on its own
MaxJoinLen == 3
\* number of invocations in progress at the same time
NumInvocations == 2

-----------------------------------------------------------------------------
(* Characters and text *)

UpperChars == <<"A","B","C","D","E","F","G","H","I","J","K","L","M",
                "N","O","P","Q","R","S","T","U","V","W","X","Y","Z">>
LowerChars == <<"a","b","c","d","e","f","g","h","i","j","k","l","m",
                "n","o","p","q","r","s","t","u","v","w","x","y","z">>
DigitChars == <<"0","1","2","3","4","5","6","7","8","9">>

Range(f) == { f[i] : i \in DOMAIN f }

\* String.prototype.toLowerCase / toUpperCase on one character
ToLowerChar(c) ==
    IF \E i \in 1..26 : UpperChars[i] = c
    THEN LowerChars[CHOOSE i \in 1..26 : UpperChars[i] = c]
    ELSE c
ToUpperChar(c) ==
    IF \E i \in 1..26 : LowerChars[i] = c
    THEN UpperChars[CHOOSE i \in 1..26 : LowerChars[i] = c]
    ELSE c
ToLowerCase(s) == [i \in 1..Len(s) |-> ToLowerChar(s[i])]
ToUpperCase(s) == [i \in 1..Len(s) |-> ToUpperChar(s[i])]

\* `${n}` for a non-negative integer
RECURSIVE Decimal(_)
Decimal(n) ==
    IF n < 10 THEN <<DigitChars[n + 1]>>
    ELSE Decimal(n \div 10) \o <<DigitChars[(n % 10) + 1]>>

StartsWith(s, p) == Len(p) <= Len(s) /\ SubSeq(s, 1, Len(p)) = p
EndsWith(s, p)   == Len(p) <= Len(s) /\ SubSeq(s, Len(s) - Len(p) + 1, Len(s)) = p
\* s.slice(1)
Slice1(s) == SubSeq(s, 2, Len(s))

Min(a, b) == IF a < b THEN a ELSE b
Max(a, b) == IF a > b THEN a ELSE b

-----------------------------------------------------------------------------
(* slugify, src/index.js:46-52 *)

SlugLimit == 120

\* [a-z0-9]
IsSlugChar(c) == c \in Range(LowerChars) \cup Range(DigitChars)

\* .replace(/[^a-z0-9]+/g, "-"): every maximal run of other characters
\* becomes one "-"
RECURSIVE CollapseFrom(_, _)
CollapseFrom(s, i) ==
    IF i > Len(s) THEN <<>>
    ELSE IF IsSlugChar(s[i]) THEN <<s[i]>> \o CollapseFrom(s, i + 1)
    ELSE IF i > 1 /\ ~IsSlugChar(s[i - 1]) THEN CollapseFrom(s, i + 1)
    ELSE <<"-">> \o CollapseFrom(s, i + 1)

\* .replace(/^-+|-+$/g, "")
RECURSIVE TrimLeadingDashes(_)
TrimLeadingDashes(s) ==
    IF s # <<>> /\ Head(s) = "-" THEN TrimLeadingDashes(Tail(s)) ELSE s
RECURSIVE TrimTrailingDashes(_)
TrimTrailingDashes(s) ==
    IF s # <<>> /\ s[Len(s)] = "-"
    THEN TrimTrailingDashes(SubSeq(s, 1, Len(s) - 1)) ELSE s

slugify(s) ==
    LET t == TrimTrailingDashes(TrimLeadingDashes(CollapseFrom(ToLowerCase(s), 1)))
    IN  SubSeq(t, 1, Min(Len(t), SlugLimit))

-----------------------------------------------------------------------------
(* {name} tokens: the matches of /\{([^}]+)\}/g, used by fillPathParams     *)
(* (src/index.js:71) and by the tool naming (src/index.js:196)              *)

\* index of the first "}" at or after position i, 0 when there is none
RECURSIVE FirstClose(_, _)
FirstClose(s, i) ==
    IF i > Len(s) THEN 0
    ELSE IF s[i] = "}" THEN i
    ELSE FirstClose(s, i + 1)

\* the regular expression matches at position i: "{", one or more
\* characters other than "}", then "}"
TokenAt(s, i) ==
    /\ i <= Len(s)
    /\ s[i] = "{"
    /\ FirstClose(s, i + 1) > i + 1
TokenEnd(s, i)  == FirstClose(s, i + 1)
TokenName(s, i) == SubSeq(s, i + 1, TokenEnd(s, i) - 1)

\* the names of the tokens of s, in the order the global regex finds them
RECURSIVE TokensFrom(_, _)
TokensFrom(s, i) ==
    IF i > Len(s) THEN <<>>
    ELSE IF TokenAt(s, i)
         THEN <<TokenName(s, i)>> \o TokensFrom(s, TokenEnd(s, i) + 1)
         ELSE TokensFrom(s, i + 1)
Tokens(s) == TokensFrom(s, 1)

\* rawPath.replace(/\{([^}]+)\}/g, "$1"), src/index.js:196
RECURSIVE UnbraceFrom(_, _)
UnbraceFrom(s, i) ==
    IF i > Len(s) THEN <<>>
    ELSE IF TokenAt(s, i)
         THEN TokenName(s, i) \o UnbraceFrom(s, TokenEnd(s, i) + 1)
         ELSE <<s[i]>> \o UnbraceFrom(s, i + 1)

-----------------------------------------------------------------------------
(* joinUrl, src/index.js:57-65 *)

joinUrl_DoubledSlash(base, path) ==
    IF base = <<>> THEN path
    ELSE IF path = <<>> THEN base
    ELSE LET hasTrailing == EndsWith(base, <<"/">>)
             hasLeading  == StartsWith(path, <<"/">>)
         IN  IF ~hasTrailing /\ ~hasLeading THEN base \o <<"/">> \o path
             ELSE base \o path

joinUrl(base, path) ==
    IF base = <<>> THEN path
    ELSE IF path = <<>> THEN base
    ELSE LET hasTrailing == EndsWith(base, <<"/">>)
             hasLeading  == StartsWith(path, <<"/">>)
         IN  IF hasTrailing /\ hasLeading THEN base \o Slice1(path)
             ELSE IF ~hasTrailing /\ ~hasLeading THEN base \o <<"/">> \o path
             ELSE base \o path

-----------------------------------------------------------------------------
(* Source documents *)

METHODS == << <<"g", "e", "t">>, <<"p", "u", "t">>, <<"p", "o", "s", "t">>, <<"d", "e", "l", "e", "t", "e">>,
              <<"o", "p", "t", "i", "o", "n", "s">>, <<"h", "e", "a", "d">>, <<"p", "a", "t", "c", "h">>, <<"t", "r", "a", "c", "e">> >>

\* An OpenAPI/Swagger document as the code reads it.  An absent field is the
\* empty sequence; `paths` is the list of the object's entries in the order
\* Object.entries yields them, each with the path item as a function from
\* the method keys it has to the operation's operationId.
Doc(title, servers, swagger, host, basePath, hasPaths, paths) ==
    [title |-> title, servers |-> servers, swagger |-> swagger, host |-> host,
     basePath |-> basePath, schemes |-> <<>>, hasPaths |-> hasPaths,
     paths |-> paths]

PathEntry(path, item) == [path |-> path, item |-> item]

\* resolveBaseUrl, src/index.js:83-98
resolveBaseUrl(spec) ==
    IF Len(spec.servers) > 0 /\ spec.servers[1] # <<>>
    THEN spec.servers[1]
    ELSE IF spec.swagger # <<>> /\ (spec.host # <<>> \/ spec.basePath # <<>>)
    THEN LET scheme == IF Len(spec.schemes) > 0 THEN spec.schemes[1]
                       ELSE <<"h", "t", "t", "p", "s">>
         IN  scheme \o <<":", "/", "/">> \o spec.host \o spec.basePath
    ELSE <<>>

\* A source URL, as new URL(url) splits it
SourceUrl(i) == [hostname |-> <<"h">> \o Decimal(i), pathname |-> <<"/", "o", "p", "e", "n", "a", "p", "i", ".", "j", "s", "o", "n">>]

\* /\/(openapi|swagger)\.(json|yaml|yml)$/i on the lower-case pathnames of
\* the model
SpecFileSuffixes ==
    { <<"/", "o", "p", "e", "n", "a", "p", "i", ".", "j", "s", "o", "n">>, <<"/", "o", "p", "e", "n", "a", "p", "i", ".", "y", "a", "m", "l">>, <<"/", "o", "p", "e", "n", "a", "p", "i", ".", "y", "m", "l">>,
      <<"/", "s", "w", "a", "g", "g", "e", "r", ".", "j", "s", "o", "n">>, <<"/", "s", "w", "a", "g", "g", "e", "r", ".", "y", "a", "m", "l">>, <<"/", "s", "w", "a", "g", "g", "e", "r", ".", "y", "m", "l">> }
StripSpecFileSuffix(p) ==
    IF \E suf \in SpecFileSuffixes : EndsWith(p, suf)
    THEN LET suf == CHOOSE x \in SpecFileSuffixes : EndsWith(p, x)
         IN  SubSeq(p, 1, Len(p) - Len(suf))
    ELSE p
\* .replace(/\//g, "-")
SlashesToDashes(p) == [i \in 1..Len(p) |-> IF p[i] = "/" THEN "-" ELSE p[i]]

\* getSpecKey, src/index.js:103-114 (the source URLs of the model parse, so
\* the catch branch is not taken)
getSpecKey(url, spec) ==
    LET byTitle  == IF spec.title # <<>> THEN slugify(spec.title) ELSE <<>>
        byHost   == slugify(url.hostname)
        byPath   == slugify(SlashesToDashes(StripSpecFileSuffix(url.pathname)))
        hostPath == IF byPath # <<>> THEN byHost \o <<"-">> \o byPath ELSE byHost
    IN  IF byTitle # <<>> THEN byTitle
        ELSE IF hostPath # <<>> THEN hostPath
        ELSE slugify(url.hostname \o url.pathname)

-----------------------------------------------------------------------------
(* makeUniqueName, src/index.js:144-152 *)

\* the while loop: `name` is the candidate, `i` the next suffix
RECURSIVE UniqueNameLoop(_, _, _, _)
UniqueNameLoop(base, used, name, i) ==
    IF name \in used
    THEN UniqueNameLoop(base, used, base \o <<"-">> \o Decimal(i), i + 1)
    ELSE name

\* a loop that gives up after the first suffix
makeUniqueName_OneSuffix(base, used) ==
    IF base \in used THEN base \o <<"-">> \o Decimal(2) ELSE base

\* the name returned; the caller's set gains it (used.add(name))
makeUniqueName(base, used) == UniqueNameLoop(base, used, base, 2)

-----------------------------------------------------------------------------
(* The compilation loop of createServer, src/index.js:178-328 *)

\* the operations of a document in the loop's order: path entries in order,
\* and per path the fixed METHODS order, skipping methods the item lacks
RECURSIVE OperationsFrom(_, _, _)
OperationsFrom(spec, p, m) ==
    IF p > Len(spec.paths) THEN <<>>
    ELSE IF m > Len(METHODS) THEN OperationsFrom(spec, p + 1, 1)
    ELSE IF METHODS[m] \in DOMAIN spec.paths[p].item
         THEN << [rawPath |-> spec.paths[p].path, method |-> METHODS[m],
                  operationId |-> spec.paths[p].item[METHODS[m]]] >>
              \o OperationsFrom(spec, p, m + 1)
         ELSE OperationsFrom(spec, p, m + 1)
Operations(spec) == IF spec.hasPaths THEN OperationsFrom(spec, 1, 1) ELSE <<>>

\* src/index.js:194-197
BaseName(specKey, o) ==
    LET opId       == IF o.operationId # <<>> THEN slugify(o.operationId) ELSE <<>>
        methodSlug == ToUpperCase(o.method)
        pathSlug   == slugify(UnbraceFrom(o.rawPath, 1))
    IN  IF opId # <<>> THEN specKey \o <<".">> \o opId
        ELSE specKey \o <<".">> \o methodSlug \o <<".">>
             \o (IF pathSlug # <<>> THEN pathSlug ELSE <<"r", "o", "o", "t">>)

\* the registered tool: its name and what the handler closes over
Tool(name, entry, o) ==
    [name |-> name, url |-> entry.url, method |-> o.method,
     rawPath |-> o.rawPath, baseUrl |-> entry.baseUrl]

\* the two inner loops for one entry of `specs`: the table and the used
\* names after registering its operations ops[k..]
RECURSIVE RegisterFrom(_, _, _, _)
RegisterFrom(entry, k, table, used) ==
    LET ops == Operations(entry.spec) IN
    IF k > Len(ops) THEN [tools |-> table, usedNames |-> used]
    ELSE LET toolName == makeUniqueName(BaseName(entry.key, ops[k]), used)
         IN  RegisterFrom(entry, k + 1,
                          Append(table, Tool(toolName, entry, ops[k])),
                          used \cup {toolName})

\* the whole outer loop over a list of entries
RECURSIVE CompileFrom(_, _, _, _)
CompileFrom(entries, s, table, used) ==
    IF s > Len(entries) THEN [tools |-> table, usedNames |-> used]
    ELSE LET r == RegisterFrom(entries[s], 1, table, used)
         IN  CompileFrom(entries, s + 1, r.tools, r.usedNames)

\* the `specs` entry pushed for a loaded document, src/index.js:171
SpecEntry(u, spec) ==
    [url |-> u, spec |-> spec, baseUrl |-> resolveBaseUrl(spec),
     key |-> getSpecKey(SourceUrl(u), spec)]

-----------------------------------------------------------------------------
(* The documents and the answers of the remote side, for the startup *)

GET == <<"g", "e", "t">>
PUT == <<"p", "u", "t">>

\* a path item from what it holds under "get" and under "put": a choice is
\* <<>> (the key is absent) or <<operationId>> (an operation, whose
\* operationId may be empty)
MethodEntry(m, choice) == IF choice = <<>> THEN <<>> ELSE (m :> choice[1])
PathItem(getChoice, putChoice) ==
    MethodEntry(GET, getChoice) @@ MethodEntry(PUT, putChoice)

GetChoices == { <<>>, << <<>> >>, << <<"A">> >>, << <<"a", "-", "2">> >> }
PutChoices == { <<>>, << <<"A">> >>, << <<"a", "-", "2">> >> }

NoDoc == Doc(<<>>, <<>>, <<>>, <<>>, <<>>, FALSE, <<>>)

\* documents titled "K" with one path, every combination of operations
TitledDocs ==
    { Doc(<<"K">>, <<>>, <<>>, <<>>, <<>>, TRUE,
          << PathEntry(<<"/", "p">>, PathItem(g, p)) >>)
      : g \in GetChoices, p \in PutChoices }

\* an untitled document (its key comes from the source URL), with a
\* Swagger-2 host and one operation on a path with a token
UntitledDoc ==
    Doc(<<>>, <<>>, <<"2", ".", "0">>, <<"h">>, <<"/", "v", "1">>, TRUE,
        << PathEntry(<<"/", "{", "t", "}">>, PathItem(<< <<>> >>, <<>>)) >>)

\* a JSON document without `paths`
PathlessDoc == Doc(<<"K">>, << <<"h", "t", "t", "p", ":", "/", "/", "h">> >>, <<>>, <<>>, <<>>, FALSE, <<>>)

StartupDocs == TitledDocs \cup {UntitledDoc, PathlessDoc}

\* what the remote side answers to the fetch of a source URL: no answer (a
\* network error), or a response with a status and a body that is a JSON
\* document or not JSON
NetworkError   == [kind |-> "networkError", status |-> 0, json |-> FALSE, doc |-> NoDoc]
Response(status, json, doc) ==
    [kind |-> "response", status |-> status, json |-> json, doc |-> doc]

StartupAnswers ==
    {NetworkError, Response(500, TRUE, UntitledDoc), Response(200, FALSE, NoDoc)}
    \cup { Response(200, TRUE, d) : d \in StartupDocs }

\* res.ok
ResponseOk(a) == a.status >= 200 /\ a.status <= 299

-----------------------------------------------------------------------------
(* createServer: the concurrent fetches, src/index.js:165-176 *)

\* the startup leaves the invocations and the joinUrl application alone
StartupFrame == UNCHANGED <<pc, input, result, sent, timer, aborted, res, joinIn, joinOut>>

StartupInit ==
    /\ remote \in [1..NumUrls -> StartupAnswers]
    /\ fetchPc = [u \in 1..NumUrls |-> "fetch"]
    /\ specs = <<>>
    /\ phase = "fetching"
    /\ cursor = 0
    /\ tools = <<>>
    /\ usedNames = {}

\* the catch block rethrowing: Promise.all, and with it createServer, rejects
SpecFetchFailed_Rethrow(u) ==
    /\ fetchPc' = [fetchPc EXCEPT ![u] = "failed"]
    /\ phase' = "aborted"
    /\ UNCHANGED <<remote, specs, cursor, tools, usedNames>>
    /\ StartupFrame

\* the catch block, src/index.js:172-174: the failure is logged and the
\* callback of this URL ends
SpecFetchFailed(u) ==
    /\ fetchPc' = [fetchPc EXCEPT ![u] = "failed"]
    /\ UNCHANGED <<remote, specs, phase, cursor, tools, usedNames>>
    /\ StartupFrame

\* await fetch(url) rejects, src/index.js:168
SpecFetchRejects(u) ==
    /\ fetchPc[u] = "fetch"
    /\ remote[u].kind = "networkError"
    /\ SpecFetchFailed(u)

\* the response is not ok, src/index.js:169
SpecFetchNotOk(u) ==
    /\ fetchPc[u] = "fetch"
    /\ remote[u].kind = "response"
    /\ ~ResponseOk(remote[u])
    /\ SpecFetchFailed(u)

\* the response is ok: the callback goes on to await res.json()
SpecFetchOk(u) ==
    /\ fetchPc[u] = "fetch"
    /\ remote[u].kind = "response"
    /\ ResponseOk(remote[u])
    /\ fetchPc' = [fetchPc EXCEPT ![u] = "json"]
    /\ UNCHANGED <<remote, specs, phase, cursor, tools, usedNames>>
    /\ StartupFrame

\* await res.json() rejects, src/index.js:170
SpecJsonRejects(u) ==
    /\ fetchPc[u] = "json"
    /\ ~remote[u].json
    /\ SpecFetchFailed(u)

\* await res.json() resolves: the entry is pushed, src/index.js:171
SpecJsonResolves(u) ==
    /\ fetchPc[u] = "json"
    /\ remote[u].json
    /\ specs' = Append(specs, SpecEntry(u, remote[u].doc))
    /\ fetchPc' = [fetchPc EXCEPT ![u] = "loaded"]
    /\ UNCHANGED <<remote, phase, cursor, tools, usedNames>>
    /\ StartupFrame

-----------------------------------------------------------------------------
(* createServer: the compilation, src/index.js:178-337 *)

\* Promise.all resolves once every callback has ended; usedNames is created
StartCompile ==
    /\ phase = "fetching"
    /\ \A u \in DOMAIN fetchPc : fetchPc[u] \in {"failed", "loaded"}
    /\ phase' = "compiling"
    /\ cursor' = 1
    /\ usedNames' = {}
    /\ UNCHANGED <<remote, fetchPc, specs, tools>>
    /\ StartupFrame

\* one iteration of the outer loop (an entry without paths registers
\* nothing: Operations is empty for it)
CompileSpec ==
    /\ phase = "compiling"
    /\ cursor <= Len(specs)
    /\ tools' = RegisterFrom(specs[cursor], 1, tools, usedNames).tools
    /\ usedNames' = RegisterFrom(specs[cursor], 1, tools, usedNames).usedNames
    /\ cursor' = cursor + 1
    /\ UNCHANGED <<remote, fetchPc, specs, phase>>
    /\ StartupFrame

\* the loop is over: the server is connected and returned
FinishCompile ==
    /\ phase = "compiling"
    /\ cursor > Len(specs)
    /\ phase' = "done"
    /\ UNCHANGED <<remote, fetchPc, specs, cursor, tools, usedNames>>
    /\ StartupFrame

StartupNext ==
    \/ \E u \in DOMAIN fetchPc : SpecFetchRejects(u)
    \/ \E u \in DOMAIN fetchPc : SpecFetchNotOk(u)
    \/ \E u \in DOMAIN fetchPc : SpecFetchOk(u)
    \/ \E u \in DOMAIN fetchPc : SpecJsonRejects(u)
    \/ \E u \in DOMAIN fetchPc : SpecJsonResolves(u)
    \/ StartCompile
    \/ CompileSpec
    \/ FinishCompile

-----------------------------------------------------------------------------
(* fillPathParams, src/index.js:70-78 *)

\* `name in pathParams` (src/index.js:72) is true for the keys of the object
\* itself and for the properties it inherits from Object.prototype.
\* pathParams is a plain object (the default `{}`, or the record the input
\* schema yields).  These are the inherited method names; the other
\* inherited keys (__proto__, __defineGetter__, ...) name no token of the
\* model's templates.
ObjectPrototypeMethods ==
    { <<"c", "o", "n", "s", "t", "r", "u", "c", "t", "o", "r">>, <<"t", "o", "S", "t", "r", "i", "n", "g">>, <<"v", "a", "l", "u", "e", "O", "f">>, <<"h", "a", "s", "O", "w", "n", "P", "r", "o", "p", "e", "r", "t", "y">>,
      <<"i", "s", "P", "r", "o", "t", "o", "t", "y", "p", "e", "O", "f">>, <<"p", "r", "o", "p", "e", "r", "t", "y", "I", "s", "E", "n", "u", "m", "e", "r", "a", "b", "l", "e">>, <<"t", "o", "L", "o", "c", "a", "l", "e", "S", "t", "r", "i", "n", "g">> }

\* String(f) for a built-in function
NativeFunctionText(fname) ==
    <<"f", "u", "n", "c", "t", "i", "o", "n", " ">> \o fname \o <<"(", ")", " ", "{", " ", "[", "n", "a", "t", "i", "v", "e", " ", "c", "o", "d", "e", "]", " ", "}">>

HasProperty(pathParams, name) ==
    name \in DOMAIN pathParams \/ name \in ObjectPrototypeMethods

\* String(pathParams[name]), src/index.js:75-76
PropertyText(pathParams, name) ==
    IF name \in DOMAIN pathParams THEN pathParams[name]
    ELSE IF name = <<"c", "o", "n", "s", "t", "r", "u", "c", "t", "o", "r">> THEN NativeFunctionText(<<"O", "b", "j", "e", "c", "t">>)
    ELSE NativeFunctionText(name)

\* encodeURIComponent: the unreserved characters stay, every other character
\* becomes the %XX of its UTF-8 bytes (the model's texts are ASCII)
UnreservedChars ==
    Range(UpperChars) \cup Range(LowerChars) \cup Range(DigitChars)
    \cup {"-", "_", ".", "!", "~", "*", "'", "(", ")"}
PercentCode ==
    (" " :> <<"%", "2", "0">>) @@ ("/" :> <<"%", "2", "F">>) @@ (":" :> <<"%", "3", "A">>) @@
    ("{" :> <<"%", "7", "B">>) @@ ("}" :> <<"%", "7", "D">>) @@ ("[" :> <<"%", "5", "B">>) @@
    ("]" :> <<"%", "5", "D">>) @@ ("%" :> <<"%", "2", "5">>) @@ ("?" :> <<"%", "3", "F">>) @@
    ("#" :> <<"%", "2", "3">>)
EncodeChar(c) == IF c \in UnreservedChars THEN <<c>> ELSE PercentCode[c]
RECURSIVE encodeURIComponent(_)
encodeURIComponent(s) ==
    IF s = <<>> THEN <<>> ELSE EncodeChar(Head(s)) \o encodeURIComponent(Tail(s))

MissingParamMessage(name) == <<"M", "i", "s", "s", "i", "n", "g", " ", "r", "e", "q", "u", "i", "r", "e", "d", " ", "p", "a", "t", "h", " ", "p", "a", "r", "a", "m", "e", "t", "e", "r", ":", " ">> \o name

\* path.replace(regex, callback) from position i on: [ok |-> TRUE, text |->
\* the filled path], or, when the callback throws at the first token without
\* a property, [ok |-> FALSE, text |-> the error's message]
RECURSIVE FillFrom(_, _, _)
FillFrom(path, i, pathParams) ==
    IF i > Len(path) THEN [ok |-> TRUE, text |-> <<>>]
    ELSE IF TokenAt(path, i)
    THEN IF ~HasProperty(pathParams, TokenName(path, i))
         THEN [ok |-> FALSE, text |-> MissingParamMessage(TokenName(path, i))]
         ELSE LET rest == FillFrom(path, TokenEnd(path, i) + 1, pathParams)
              IN  IF rest.ok
                  THEN [ok |-> TRUE,
                        text |-> encodeURIComponent(
                                     PropertyText(pathParams, TokenName(path, i)))
                                 \o rest.text]
                  ELSE rest
    ELSE LET rest == FillFrom(path, i + 1, pathParams)
         IN  IF rest.ok THEN [ok |-> TRUE, text |-> <<path[i]>> \o rest.text]
             ELSE rest

fillPathParams(path, pathParams) == FillFrom(path, 1, pathParams)

-----------------------------------------------------------------------------
(* The tool handler up to the HTTP call, src/index.js:230-304 *)

\* new URL(s) does not throw: s starts with a scheme and ":".  The URLs of
\* the model have the scheme http and the host h, or no scheme at all, and
\* for those this is what the URL parser decides.
IsSchemeChar(c) ==
    c \in Range(UpperChars) \cup Range(LowerChars) \cup Range(DigitChars)
          \cup {"+", "-", "."}
IsAbsoluteUrl(s) ==
    \E k \in 2..Len(s) :
        /\ s[k] = ":"
        /\ s[1] \in Range(UpperChars) \cup Range(LowerChars)
        /\ \A j \in 2..(k - 1) : IsSchemeChar(s[j])

DefaultTimeoutMs == 30000
MinTimeoutMs == 1
MaxTimeoutMs == 300000

\* Math.min(Math.max(timeoutMs || 30000, 1), 300000), src/index.js:295;
\* timeoutMs is <<>> (absent) or <<n>>
EffectiveTimeout(timeoutMs) ==
    LET given == IF timeoutMs = <<>> \/ timeoutMs[1] = 0
                 THEN DefaultTimeoutMs ELSE timeoutMs[1]
    IN  Min(Max(given, MinTimeoutMs), MaxTimeoutMs)

InvalidUrlMessage(base) ==
    <<"I", "n", "v", "a", "l", "i", "d", " ", "U", "R", "L", ".", " ", "P", "r", "o", "v", "i", "d", "e", " ", "a", " ", "v", "a", "l", "i", "d", " ", "b", "a", "s", "e", "U", "r", "l", " ", "(", "c", "u", "r", "r", "e", "n", "t", ":", " ", "'">> \o base
    \o <<"'", ")", " ", "o", "r", " ", "e", "n", "s", "u", "r", "e", " ", "t", "h", "e", " ", "p", "a", "t", "h", " ", "i", "s", " ", "a", "b", "s", "o", "l", "u", "t", "e", ".">>

\* the base and the path template the handler works with, src/index.js:236-237
EffectiveBase(tool, in) == IF in.baseUrl # <<>> THEN in.baseUrl ELSE tool.baseUrl
EffectivePath(tool, in) == IF in.path # <<>> THEN in.path ELSE tool.rawPath

\* the handler that hands the joined string to fetch without parsing it
HandlerPrologue_NoUrlCheck(tool, in) ==
    LET base   == EffectiveBase(tool, in)
        filled == fillPathParams(EffectivePath(tool, in), in.pathParams)
    IN  IF ~filled.ok
        THEN [step |-> "return", text |-> <<"E", "r", "r", "o", "r", " ", "f", "i", "l", "l", "i", "n", "g", " ", "p", "a", "t", "h", " ", "p", "a", "r", "a", "m", "s", ":", " ">> \o filled.text,
              url |-> <<>>, ms |-> 0]
        ELSE [step |-> "fetch", text |-> <<>>, url |-> joinUrl(base, filled.text),
              ms |-> EffectiveTimeout(in.timeoutMs)]

\* the synchronous part of the handler, src/index.js:234-295: it returns a
\* text (step "return"), or gets as far as the fetch of `url` with the timer
\* set to `ms` (step "fetch").  The method, the query, the headers and the
\* body only shape the request and are left out.
HandlerPrologue(tool, in) ==
    LET base   == EffectiveBase(tool, in)
        filled == fillPathParams(EffectivePath(tool, in), in.pathParams)
    IN  IF ~filled.ok
        THEN [step |-> "return", text |-> <<"E", "r", "r", "o", "r", " ", "f", "i", "l", "l", "i", "n", "g", " ", "p", "a", "t", "h", " ", "p", "a", "r", "a", "m", "s", ":", " ">> \o filled.text,
              url |-> <<>>, ms |-> 0]
        ELSE IF ~IsAbsoluteUrl(joinUrl(base, filled.text))
        THEN [step |-> "return", text |-> InvalidUrlMessage(base), url |-> <<>>, ms |-> 0]
        ELSE [step |-> "fetch", text |-> <<>>, url |-> joinUrl(base, filled.text),
              ms |-> EffectiveTimeout(in.timeoutMs)]

-----------------------------------------------------------------------------
(* The state of one invocation *)

NoInput  == [tool |-> 0, baseUrl |-> <<>>, path |-> <<>>, pathParams |-> <<>>,
             timeoutMs |-> <<>>]
NoBody   == [kind |-> "none", value |-> <<>>]
NoResult == [kind |-> "none", text |-> <<>>, status |-> 0, body |-> NoBody]
NoTimer  == [state |-> "unset", ms |-> 0]
NoRes    == [present |-> FALSE, status |-> 0, ctype |-> <<>>, bodyUsed |-> FALSE,
             delivered |-> FALSE, bodyText |-> <<>>]

\* { content: asTextContent(text) }, src/index.js:119-122
TextResult(text) == [kind |-> "text", text |-> text, status |-> 0, body |-> NoBody]
\* { content: asTextContent(info) }, src/index.js:312-323
EnvelopeResult(r, body) ==
    [kind |-> "envelope", text |-> <<>>, status |-> r.status, body |-> body]

\* what the callers of the model pass to a tool
ParamMaps ==
    { <<>>,
      (<<"t">> :> <<"v">>),
      (<<"t">> :> <<"a", "/", "b">>),
      (<<"u">> :> <<"v">>),
      (<<"t">> :> <<"v">>) @@ (<<"u">> :> <<"{", "t", "}">>) }
BaseOverrides == { <<>>, <<"h", "t", "t", "p", ":", "/", "/", "h">> }
PathOverrides == { <<>>, <<"h", "t", "t", "p", ":", "/", "/", "h", "/", "x">>, <<"/", "{", "c", "o", "n", "s", "t", "r", "u", "c", "t", "o", "r", "}">>, <<"x", "/", "{", "t", "}", "/", "{", "u", "}">> }
TimeoutInputs == { <<>>, <<0>>, <<-1>>, <<1>>, <<300000>>, <<300001>>, <<10000000>> }

HandlerInputs ==
    { [tool |-> t, baseUrl |-> b, path |-> p, pathParams |-> pp, timeoutMs |-> ms]
      : t \in DOMAIN tools, b \in BaseOverrides, p \in PathOverrides,
        pp \in ParamMaps, ms \in TimeoutInputs }

\* the status line and content-type header of the answers of the model
ResponseHeads ==
    { [status |-> 200, ctype |-> <<"a", "p", "p", "l", "i", "c", "a", "t", "i", "o", "n", "/", "j", "s", "o", "n">>],
      [status |-> 200, ctype |-> <<"a", "p", "p", "l", "i", "c", "a", "t", "i", "o", "n", "/", "j", "s", "o", "n", ";", " ", "c", "h", "a", "r", "s", "e", "t", "=", "u", "t", "f", "-", "8">>],
      [status |-> 200, ctype |-> <<"t", "e", "x", "t", "/", "p", "l", "a", "i", "n">>],
      [status |-> 404, ctype |-> <<>>] }
\* the bodies of the answers of the model, and which of them JSON.parse takes
BodyTexts == { <<"{", "\"", "a", "\"", ":", "1", "}">>, <<"{", "o", "o", "p", "s">>, <<>> }
IsJsonText(t) == t = <<"{", "\"", "a", "\"", ":", "1", "}">>

\* s.includes(sub)
Includes(s, sub) ==
    \E k \in 1..(Len(s) - Len(sub) + 1) : SubSeq(s, k, k + Len(sub) - 1) = sub

-----------------------------------------------------------------------------
(* The tool handler, src/index.js:230-324, with parseResponse (127-139) *)

\* an invocation leaves the server's tables and the joinUrl application alone
HandlerFrame ==
    UNCHANGED <<remote, fetchPc, specs, phase, cursor, tools, usedNames, joinIn, joinOut>>

\* the handler is called and runs to its first await, or to a return
Invoke(i, in) ==
    /\ pc[i] = "idle"
    /\ input' = [input EXCEPT ![i] = in]
    /\ LET p == HandlerPrologue(tools[in.tool], in) IN
       IF p.step = "return"
       THEN /\ result' = [result EXCEPT ![i] = TextResult(p.text)]
            /\ pc' = [pc EXCEPT ![i] = "returned"]
            /\ UNCHANGED <<sent, timer>>
       ELSE /\ timer' = [timer EXCEPT ![i] = [state |-> "armed", ms |-> p.ms]]
            /\ sent' = [sent EXCEPT ![i] = Append(@, p.url)]
            /\ pc' = [pc EXCEPT ![i] = "fetching"]
            /\ UNCHANGED result
    /\ UNCHANGED <<aborted, res>>
    /\ HandlerFrame

\* one AbortController shared by the invocations: the callback of any timer
\* aborts the request of every invocation
TimerFires_SharedController(i) ==
    /\ timer[i].state = "armed"
    /\ timer' = [timer EXCEPT ![i].state = "fired"]
    /\ aborted' = [j \in DOMAIN aborted |-> TRUE]
    /\ UNCHANGED <<pc, input, result, sent, res>>
    /\ HandlerFrame

\* the timer's callback, src/index.js:295: controller.abort() on the
\* controller this invocation created (src/index.js:294)
TimerFires(i) ==
    /\ timer[i].state = "armed"
    /\ timer' = [timer EXCEPT ![i].state = "fired"]
    /\ aborted' = [aborted EXCEPT ![i] = TRUE]
    /\ UNCHANGED <<pc, input, result, sent, res>>
    /\ HandlerFrame

\* the aborted fetch rejects: the catch block, src/index.js:305-308
FetchAborted(i) ==
    /\ pc[i] = "fetching"
    /\ aborted[i]
    /\ result' = [result EXCEPT ![i] =
                     TextResult(<<"R", "e", "q", "u", "e", "s", "t", " ", "f", "a", "i", "l", "e", "d", ":", " ", "T", "h", "i", "s", " ", "o", "p", "e", "r", "a", "t", "i", "o", "n", " ", "w", "a", "s", " ", "a", "b", "o", "r", "t", "e", "d">>)]
    /\ pc' = [pc EXCEPT ![i] = "returned"]
    /\ UNCHANGED <<input, sent, timer, aborted, res>>
    /\ HandlerFrame

\* the fetch rejects with a network error: the catch block clears the timer
FetchFails(i) ==
    /\ pc[i] = "fetching"
    /\ ~aborted[i]
    /\ timer' = [timer EXCEPT ![i].state = "cleared"]
    /\ result' = [result EXCEPT ![i] = TextResult(<<"R", "e", "q", "u", "e", "s", "t", " ", "f", "a", "i", "l", "e", "d", ":", " ", "f", "e", "t", "c", "h", " ", "f", "a", "i", "l", "e", "d">>)]
    /\ pc' = [pc EXCEPT ![i] = "returned"]
    /\ UNCHANGED <<input, sent, aborted, res>>
    /\ HandlerFrame

\* the fetch resolves with the response's head: the timer is cleared
\* (src/index.js:309) and parseResponse starts to read the body, with
\* res.json() or with res.text() (src/index.js:128-137)
FetchResolves(i, head) ==
    /\ pc[i] = "fetching"
    /\ ~aborted[i]
    /\ timer' = [timer EXCEPT ![i].state = "cleared"]
    /\ res' = [res EXCEPT ![i] =
                  [present |-> TRUE, status |-> head.status, ctype |-> head.ctype,
                   bodyUsed |-> TRUE, delivered |-> FALSE, bodyText |-> <<>>]]
    /\ pc' = [pc EXCEPT ![i] =
                 IF Includes(head.ctype, <<"a", "p", "p", "l", "i", "c", "a", "t", "i", "o", "n", "/", "j", "s", "o", "n">>)
                 THEN "readingJson" ELSE "readingText"]
    /\ UNCHANGED <<input, result, sent, aborted>>
    /\ HandlerFrame

\* res.text() on a response whose body was already read rejects
TextReadRejects(r) == r.bodyUsed

\* the catch of parseResponse (src/index.js:133) falls through to
\* res.text() on the same response (src/index.js:137); its rejection leaves
\* parseResponse and, not caught by the handler (src/index.js:311), the
\* handler
JsonFallback(i) ==
    IF TextReadRejects(res'[i])
    THEN /\ pc' = [pc EXCEPT ![i] = "thrown"]
         /\ UNCHANGED result
    ELSE /\ pc' = [pc EXCEPT ![i] = "readingText"]
         /\ UNCHANGED result

\* the body read by res.json() is complete
JsonBodyArrives(i, text) ==
    /\ pc[i] = "readingJson"
    /\ res' = [res EXCEPT ![i].delivered = TRUE, ![i].bodyText = text]
    /\ IF IsJsonText(text)
       THEN /\ result' = [result EXCEPT ![i] =
                             EnvelopeResult(res[i], [kind |-> "json", value |-> text])]
            /\ pc' = [pc EXCEPT ![i] = "returned"]
       ELSE JsonFallback(i)
    /\ UNCHANGED <<input, sent, timer, aborted>>
    /\ HandlerFrame

\* the body read by res.json() breaks off
JsonBodyFails(i) ==
    /\ pc[i] = "readingJson"
    /\ res' = res
    /\ JsonFallback(i)
    /\ UNCHANGED <<input, sent, timer, aborted>>
    /\ HandlerFrame

\* the body read by res.text() is complete
TextBodyArrives(i, text) ==
    /\ pc[i] = "readingText"
    /\ res' = [res EXCEPT ![i].delivered = TRUE, ![i].bodyText = text]
    /\ result' = [result EXCEPT ![i] =
                     EnvelopeResult(res[i], [kind |-> "text", value |-> text])]
    /\ pc' = [pc EXCEPT ![i] = "returned"]
    /\ UNCHANGED <<input, sent, timer, aborted>>
    /\ HandlerFrame

\* the body read by res.text() breaks off: res.text() rejects
TextBodyFails(i) ==
    /\ pc[i] = "readingText"
    /\ pc' = [pc EXCEPT ![i] = "thrown"]
    /\ UNCHANGED <<input, result, sent, timer, aborted, res>>
    /\ HandlerFrame

HandlerNext ==
    \/ \E i \in DOMAIN pc : \E in \in HandlerInputs : Invoke(i, in)
    \/ \E i \in DOMAIN pc : TimerFires(i)
    \/ \E i \in DOMAIN pc : FetchAborted(i)
    \/ \E i \in DOMAIN pc : FetchFails(i)
    \/ \E i \in DOMAIN pc : \E head \in ResponseHeads : FetchResolves(i, head)
    \/ \E i \in DOMAIN pc : \E text \in BodyTexts : JsonBodyArrives(i, text)
    \/ \E i \in DOMAIN pc : JsonBodyFails(i)
    \/ \E i \in DOMAIN pc : \E text \in BodyTexts : TextBodyArrives(i, text)
    \/ \E i \in DOMAIN pc : TextBodyFails(i)

\* the server the invocations run on: createServer has returned, having
\* loaded these documents in this order
PetsDoc ==
    Doc(<<"P", "e", "t", "s">>, <<>>, <<>>, <<>>, <<>>, TRUE,
        << PathEntry(<<"/", "p", "/", "{", "t", "}">>, PathItem(<< <<"g", "e", "t", "P", "e", "t">> >>, <<>>)) >>)
ShopDoc ==
    Doc(<<"S", "h", "o", "p">>, << <<"h", "t", "t", "p", ":", "/", "/", "h", "/">> >>, <<>>, <<>>, <<>>, TRUE,
        << PathEntry(<<"/", "q">>, PathItem(<< <<>> >>, <<>>)) >>)
LocalDoc ==
    Doc(<<"L", "o", "c", "a", "l">>, << <<"/", "v", "1">> >>, <<>>, <<>>, <<>>, TRUE,
        << PathEntry(<<"/", "{", "t", "}">>, PathItem(<<>>, << <<>> >>)) >>)
ServedDocs == <<PetsDoc, ShopDoc, LocalDoc>>
ServedEntries == [u \in DOMAIN ServedDocs |-> SpecEntry(u, ServedDocs[u])]

ServerRunning ==
    /\ remote = [u \in DOMAIN ServedDocs |-> Response(200, TRUE, ServedDocs[u])]
    /\ fetchPc = [u \in DOMAIN ServedDocs |-> "loaded"]
    /\ specs = ServedEntries
    /\ phase = "done"
    /\ cursor = Len(ServedEntries) + 1
    /\ tools = CompileFrom(ServedEntries, 1, <<>>, {}).tools
    /\ usedNames = CompileFrom(ServedEntries, 1, <<>>, {}).usedNames

\* the invocations of the model
Invocations == {1}

HandlerInit ==
    /\ pc = [i \in Invocations |-> "idle"]
    /\ input = [i \in Invocations |-> NoInput]
    /\ result = [i \in Invocations |-> NoResult]
    /\ sent = [i \in Invocations |-> <<>>]
    /\ timer = [i \in Invocations |-> NoTimer]
    /\ aborted = [i \in Invocations |-> FALSE]
    /\ res = [i \in Invocations |-> NoRes]

-----------------------------------------------------------------------------
(* Several invocations in progress at once: each call of the handler has    *)
(* its own controller, timer and response (src/index.js:294-297), and the   *)
(* calls interleave at their awaits                                         *)

ConcurrentInvocations == 1..NumInvocations

\* what the concurrent callers pass: every tool with its default base and
\* path, with the default timeout or the shortest one
ConcurrentInputs ==
    { [tool |-> t, baseUrl |-> <<>>, path |-> <<>>,
       pathParams |-> (<<"t">> :> <<"v">>), timeoutMs |-> ms]
      : t \in DOMAIN tools, ms \in { <<>>, <<1>> } }

\* the answers the concurrent requests get
ConcurrentHeads ==
    { h \in ResponseHeads :
        h.status = 200 /\ h.ctype \in { <<"a", "p", "p", "l", "i", "c", "a", "t", "i", "o", "n", "/", "j", "s", "o", "n">>, <<"t", "e", "x", "t", "/", "p", "l", "a", "i", "n">> } }
ConcurrentBodies == { b \in BodyTexts : b # <<>> }

ConcurrentInit ==
    /\ pc = [i \in ConcurrentInvocations |-> "idle"]
    /\ input = [i \in ConcurrentInvocations |-> NoInput]
    /\ result = [i \in ConcurrentInvocations |-> NoResult]
    /\ sent = [i \in ConcurrentInvocations |-> <<>>]
    /\ timer = [i \in ConcurrentInvocations |-> NoTimer]
    /\ aborted = [i \in ConcurrentInvocations |-> FALSE]
    /\ res = [i \in ConcurrentInvocations |-> NoRes]

ConcurrentNext ==
    \/ \E i \in DOMAIN pc : \E in \in ConcurrentInputs : Invoke(i, in)
    \/ \E i \in DOMAIN pc : TimerFires(i)
    \/ \E i \in DOMAIN pc : FetchAborted(i)
    \/ \E i \in DOMAIN pc : FetchFails(i)
    \/ \E i \in DOMAIN pc : \E head \in ConcurrentHeads : FetchResolves(i, head)
    \/ \E i \in DOMAIN pc : \E text \in ConcurrentBodies : JsonBodyArrives(i, text)
    \/ \E i \in DOMAIN pc : JsonBodyFails(i)
    \/ \E i \in DOMAIN pc : \E text \in ConcurrentBodies : TextBodyArrives(i, text)
    \/ \E i \in DOMAIN pc : TextBodyFails(i)

-----------------------------------------------------------------------------
(* joinUrl applied to a base and a path, src/index.js:57-65 *)

JoinChars == {"/", "a"}
\* the texts over JoinChars of at most n characters
RECURSIVE TextsUpTo(_)
TextsUpTo(n) ==
    IF n = 0 THEN { <<>> }
    ELSE TextsUpTo(n - 1)
         \cup { Append(s, c) : s \in { t \in TextsUpTo(n - 1) : Len(t) = n - 1 },
                               c \in JoinChars }

JoinInit ==
    /\ joinIn \in { <<b, p>> : b \in TextsUpTo(MaxJoinLen), p \in TextsUpTo(MaxJoinLen) }
    /\ joinOut = <<>>

ApplyJoin ==
    /\ joinOut = <<>>
    /\ joinOut' = << joinUrl(joinIn[1], joinIn[2]) >>
    /\ UNCHANGED joinIn
    /\ UNCHANGED <<remote, fetchPc, specs, phase, cursor, tools, usedNames>>
    /\ UNCHANGED <<pc, input, result, sent, timer, aborted, res>>

-----------------------------------------------------------------------------
(* Specifications *)

HandlerIdle ==
    /\ pc = <<>>
    /\ input = <<>>
    /\ result = <<>>
    /\ sent = <<>>
    /\ timer = <<>>
    /\ aborted = <<>>
    /\ res = <<>>

\* no server
StartupIdle ==
    /\ remote = <<>>
    /\ fetchPc = <<>>
    /\ specs = <<>>
    /\ phase = "none"
    /\ cursor = 0
    /\ tools = <<>>
    /\ usedNames = {}

JoinIdle ==
    /\ joinIn = <<>>
    /\ joinOut = <<>>

\* the startup: createServer from its call to its return
SpecCompileInit == StartupInit /\ HandlerIdle /\ JoinIdle
SpecCompileNext == StartupNext
SpecCompile == SpecCompileInit /\ [][SpecCompileNext]_vars

\* the running server: invocations of its tools
Init == ServerRunning /\ HandlerInit /\ JoinIdle
Next == HandlerNext
Spec == Init /\ [][Next]_vars

\* the running server with several invocations in progress
SpecConcurrentInit == ServerRunning /\ ConcurrentInit /\ JoinIdle
SpecConcurrentNext == ConcurrentNext
SpecConcurrent == SpecConcurrentInit /\ [][SpecConcurrentNext]_vars

\* joinUrl on its own
SpecJoinInit == JoinInit /\ HandlerIdle /\ StartupIdle
SpecJoinNext == ApplyJoin
SpecJoin == SpecJoinInit /\ [][SpecJoinNext]_vars

-----------------------------------------------------------------------------
(* Properties of the startup, under SpecCompile *)

\* the source URL's answer loads: ok status and a JSON body
Loads(u) == remote[u].kind = "response" /\ ResponseOk(remote[u]) /\ remote[u].json

\* the entries of the loaded documents in the order of the URL list
RECURSIVE EntriesInListOrder(_)
EntriesInListOrder(u) ==
    IF u > NumUrls THEN <<>>
    ELSE IF Loads(u) THEN <<SpecEntry(u, remote[u].doc)>> \o EntriesInListOrder(u + 1)
    ELSE EntriesInListOrder(u + 1)

ListOrderTools == CompileFrom(EntriesInListOrder(1), 1, <<>>, {}).tools

\* C1: once createServer is done, every operation has the name that
\* compiling the loaded documents in the order of the URL list gives it,
\* whatever order the fetches completed in.
C1_NamesFollowListOrder ==
    phase = "done" => Range(tools) = Range(ListOrderTools)

\* the operationId of the operation a registered tool was made from
OperationIdOf(t) ==
    LET d == remote[t.url].doc
        p == CHOOSE k \in DOMAIN d.paths : d.paths[k].path = t.rawPath
    IN  d.paths[p].item[t.method]

\* the base name createServer proposed for a registered tool
ProposedName(t) ==
    BaseName(getSpecKey(SourceUrl(t.url), remote[t.url].doc),
             [rawPath |-> t.rawPath, method |-> t.method,
              operationId |-> OperationIdOf(t)])

Suffixed(base, k) == base \o <<"-">> \o Decimal(k)
NamesBefore(i) == { tools[j].name : j \in 1..(i - 1) }

\* C2: the names returned by makeUniqueName are pairwise different and all in
\* usedNames; a proposed name not used before is returned unchanged, a used
\* one with the first suffix -2, -3, ... that is free.
C2_UniqueNames ==
    /\ \A i, j \in DOMAIN tools : i # j => tools[i].name # tools[j].name
    /\ \A i \in DOMAIN tools : tools[i].name \in usedNames
    /\ \A i \in DOMAIN tools :
          LET base == ProposedName(tools[i]) IN
          IF base \notin NamesBefore(i)
          THEN tools[i].name = base
          ELSE \E k \in 2..(i + 1) :
                  /\ tools[i].name = Suffixed(base, k)
                  /\ Suffixed(base, k) \notin NamesBefore(i)
                  /\ \A j \in 2..(k - 1) : Suffixed(base, j) \in NamesBefore(i)

\* the proposals "k.a", "k.a", "k.a-2": the third meets the suffixed name the
\* second was given
C2_Witness ==
    /\ phase = "done"
    /\ \E i, j, k \in DOMAIN tools :
          /\ i < j /\ j < k
          /\ tools[i].name = <<"k", ".", "a">>
          /\ ProposedName(tools[j]) = <<"k", ".", "a">> /\ tools[j].name = <<"k", ".", "a", "-", "2">>
          /\ ProposedName(tools[k]) = <<"k", ".", "a", "-", "2">> /\ tools[k].name = <<"k", ".", "a", "-", "2", "-", "2">>

OperationKey(u, o) == <<u, o.rawPath, o.method>>
ToolKey(t) == <<t.url, t.rawPath, t.method>>
LoadedOperationKeys ==
    UNION { { OperationKey(u, o) : o \in Range(Operations(remote[u].doc)) }
            : u \in { v \in 1..NumUrls : Loads(v) } }

\* C7: a failing fetch does not abort createServer and contributes no
\* operation, and the operations of every document that loads are
\* registered: createServer never ends in a rejection, no entry of `specs`
\* comes from a failing URL, and once it is done the registered tools are
\* exactly the operations of the loaded documents, one tool each.
C7_FailureIsolation ==
    /\ phase # "aborted"
    /\ \A k \in DOMAIN specs : Loads(specs[k].url)
    /\ phase = "done" =>
          /\ { ToolKey(tools[i]) : i \in DOMAIN tools } = LoadedOperationKeys
          /\ Len(tools) = Cardinality(LoadedOperationKeys)

\* one URL answers 500, another a document with two operations: two tools
C7_Witness ==
    /\ phase = "done"
    /\ \E u, v \in 1..NumUrls :
          /\ remote[u].kind = "response" /\ remote[u].status = 500
          /\ Loads(v) /\ Len(Operations(remote[v].doc)) = 2
          /\ \A w \in 1..NumUrls : w # v => ~Loads(w)
    /\ Len(tools) = 2

-----------------------------------------------------------------------------
(* Properties of an invocation, under Spec *)

Invoked(i) == pc[i] # "idle"
ToolOf(i)  == tools[input[i].tool]
\* the path template invocation i works with, and its tokens
TemplateOf(i) == EffectivePath(ToolOf(i), input[i])
\* the tokens of the template without an entry in the pathParams passed
MissingTokens(i) ==
    { n \in Range(Tokens(TemplateOf(i))) : n \notin DOMAIN input[i].pathParams }

FillErrorText(name) == <<"E", "r", "r", "o", "r", " ", "f", "i", "l", "l", "i", "n", "g", " ", "p", "a", "t", "h", " ", "p", "a", "r", "a", "m", "s", ":", " ">> \o MissingParamMessage(name)

\* C3: when a token of the effective path template has no entry in
\* pathParams, the invocation returns the text that names such a token
\* (Missing required path parameter: <name>) and issues no HTTP request;
\* when every token has an entry, no path-parameter error is returned and a
\* URL that is requested holds none of the tokens and holds each entry's
\* value percent-encoded.
C3_MissingParamIsAnError ==
    \A i \in DOMAIN pc : Invoked(i) =>
        IF MissingTokens(i) # {}
        THEN /\ pc[i] = "returned"
             /\ sent[i] = <<>>
             /\ \E n \in MissingTokens(i) : result[i] = TextResult(FillErrorText(n))
        ELSE /\ \A n \in Range(Tokens(TemplateOf(i))) :
                    result[i] # TextResult(FillErrorText(n))
             /\ \A k \in DOMAIN sent[i] :
                    /\ Tokens(sent[i][k]) = <<>>
                    /\ \A n \in Range(Tokens(TemplateOf(i))) :
                           Includes(sent[i][k],
                                    encodeURIComponent(input[i].pathParams[n]))

\* the timeout the description gives for an input
ClaimedTimeout(timeoutMs) ==
    IF timeoutMs = <<>> THEN 30000
    ELSE IF timeoutMs[1] <= 0 THEN 1
    ELSE IF timeoutMs[1] <= 300000 THEN timeoutMs[1]
    ELSE 300000

\* C4: the timer of an invocation is set to 30000 when timeoutMs is absent,
\* to 1 when it is 0 or negative, to timeoutMs when it is in 1..300000 and to
\* 300000 when it is larger; the delay is always in 1..300000.
C4_TimeoutClamp ==
    \A i \in DOMAIN pc : timer[i].state # "unset" =>
        /\ timer[i].ms = ClaimedTimeout(input[i].timeoutMs)
        /\ timer[i].ms \in 1..300000

\* C5: an invocation never ends by throwing: whatever fails (a missing path
\* parameter, a URL that does not parse, the transport, the timeout's abort,
\* the reading or parsing of the response body), the handler returns.
C5_NeverThrows ==
    \A i \in DOMAIN pc : pc[i] # "thrown"

\* the body parseResponse is described to yield for a completed response
ClaimedBody(r) ==
    IF Includes(r.ctype, <<"a", "p", "p", "l", "i", "c", "a", "t", "i", "o", "n", "/", "j", "s", "o", "n">>) /\ IsJsonText(r.bodyText)
    THEN [kind |-> "json", value |-> r.bodyText]
    ELSE [kind |-> "text", value |-> r.bodyText]

\* C6: once the body of a response has arrived, the invocation returns the
\* envelope whose body is the parsed value when the content-type contains
\* application/json and the body is JSON, and the raw text of the body
\* otherwise (a JSON content-type with a body that is not JSON included); no
\* error is raised.
C6_MalformedJsonFallsBackToText ==
    \A i \in DOMAIN pc : res[i].delivered =>
        /\ pc[i] = "returned"
        /\ result[i] = EnvelopeResult(res[i], ClaimedBody(res[i]))

C9_TimeoutCoversTheWholeCall ==
    \A i \in DOMAIN pc :
        pc[i] \in {"fetching", "readingJson", "readingText"} =>
            timer[i].state = "armed" \/ aborted[i]

-----------------------------------------------------------------------------
(* Properties of joinUrl, under SpecJoin *)

WithoutTrailingSlash(s) ==
    IF s # <<>> /\ s[Len(s)] = "/" THEN SubSeq(s, 1, Len(s) - 1) ELSE s
WithoutLeadingSlash(s) ==
    IF s # <<>> /\ s[1] = "/" THEN SubSeq(s, 2, Len(s)) ELSE s

\* C10: for a non-empty base and a non-empty path, with or without a slash
\* at the end of the base and at the start of the path, the joined text is
\* the base without its trailing slash, one "/", and the path without its
\* leading slash.
C10_OneSlashAtTheJunction ==
    (joinOut # <<>> /\ joinIn[1] # <<>> /\ joinIn[2] # <<>>) =>
        joinOut[1] = WithoutTrailingSlash(joinIn[1]) \o <<"/">>
                     \o WithoutLeadingSlash(joinIn[2])

\* joinUrl was applied to a base that ends with "/" and a path that starts
\* with "/", both longer than the slash
C10_Witness ==
    /\ joinOut # <<>>
    /\ Len(joinIn[1]) > 1 /\ EndsWith(joinIn[1], <<"/">>)
    /\ Len(joinIn[2]) > 1 /\ StartsWith(joinIn[2], <<"/">>)
    /\ joinOut[1] = joinIn[1] \o Slice1(joinIn[2])

-----------------------------------------------------------------------------
(* Properties of concurrent invocations, under SpecConcurrent *)

\* what belongs to invocation i
InvocationState(i) == <<pc[i], input[i], result[i], sent[i], timer[i], aborted[i], res[i]>>
\* the timer of invocation i fires in this step
TimerFiring(i) == timer[i].state = "armed" /\ timer'[i].state = "fired"
AbortedText == <<"R", "e", "q", "u", "e", "s", "t", " ", "f", "a", "i", "l", "e", "d", ":", " ", "T", "h", "i", "s", " ", "o", "p", "e", "r", "a", "t", "i", "o", "n", " ", "w", "a", "s", " ", "a", "b", "o", "r", "t", "e", "d">>

\* C11: with several invocations in progress, a step in which the timer of
\* one invocation fires aborts that invocation and leaves everything of
\* every other invocation as it was (its abort signal, its request, its
\* result); a request is aborted, and an invocation returns the text of an
\* aborted request, only when its own timer has fired; every invocation
\* issues at most one HTTP request, after a failure or an abort as well; and
\* no step of an invocation changes the registered tools or the used names.
C11_TimeoutIsPerInvocation ==
    [][ /\ \A i \in DOMAIN pc : TimerFiring(i) =>
              /\ aborted'[i]
              /\ \A j \in DOMAIN pc \ {i} : InvocationState(j)' = InvocationState(j)
        /\ \A j \in DOMAIN pc :
              /\ aborted'[j] => timer'[j].state = "fired"
              /\ result'[j] = TextResult(AbortedText) => timer'[j].state = "fired"
              /\ Len(sent'[j]) <= 1
        /\ tools' = tools
        /\ usedNames' = usedNames ]_vars

\* the timer of one invocation has fired and its request was aborted, with
\* one request issued and none after the abort, while the request of
\* another invocation is still in flight, its timer set and its signal not
\* aborted
C11_Witness ==
    \E i, j \in DOMAIN pc :
        /\ i # j
        /\ timer[i].state = "fired" /\ aborted[i]
        /\ pc[i] = "returned" /\ result[i] = TextResult(AbortedText)
        /\ Len(sent[i]) = 1
        /\ pc[j] = "fetching" /\ timer[j].state = "armed" /\ ~aborted[j]
        /\ Len(sent[j]) = 1

====
